---- MODULE Spec2Model ----
(***************************************************************************)
(* A model of the compiled leaf validators of jsonschema-rs: the exact     *)
(* number engine (perfect_precision_number.rs), the structural equality    *)
(* engine and uniqueItems (keywords/unique_items.rs), minimum and          *)
(* multipleOf (keywords/minimum.rs, keywords/multiple_of.rs) and the       *)
(* format validators (format.rs, format/jsonschema_formats.rs).            *)
(*                                                                         *)
(* A text is a sequence of one-character strings, so that the parser can   *)
(* be followed character by character.  rug's integers and rationals are   *)
(* unbounded; they are modelled by TLA+ integers.                          *)
(***************************************************************************)
EXTENDS Integers, Sequences, FiniteSets, TLC

VARIABLES
    text,       \* the text last given to from_str (Unset before)
    parsed,     \* what from_str (or a failed try_from) returned for it
    nums,       \* the exact numbers constructed so far
    res,        \* the result of the last operation on nums
    engine,     \* the build: "exact" (feature perfect_precision) or "fast"
    validator,  \* the result of compiling one keyword
    instance,   \* the instance last validated
    verdict,    \* what is_valid returned for it
    errors,     \* what validate returned for it
    registry,   \* the format handlers: the handler of each name
    calls,      \* the validation calls of each thread on the one validator
    description \* what name() returned for the validator

numberVars == <<text, parsed, nums, res>>

validateVars ==
    <<engine, validator, instance, verdict, errors, registry, calls, description>>

vars ==
    <<text, parsed, nums, res, engine, validator, instance, verdict, errors, registry, calls,
      description>>

-----------------------------------------------------------------------------
(* Bounds of the model *)

MaxTextLen == 3         \* longest text handed to from_str on its own
MaxOperandLen == 2      \* longest text an operand of cmp / is_multiple_of is parsed from
MaxInt == 2             \* native integers -MaxInt..MaxInt
MaxMant == 3            \* native floats m / 2^e with |m| <= MaxMant
MaxExp == 2             \*                         and e <= MaxExp
MantissaBits == 10      \* bits of the mantissa of the float a literal is read as
MaxLimitLen == 2        \* longest number literal of a schema (limit, divisor)
MaxLiteralLen == 3      \* longest number literal of an instance
MaxItems == 2           \* longest instance array

-----------------------------------------------------------------------------
(* Texts *)

Digits == {"0", "1", "5"}
Alphabet == Digits \cup {".", "-", "+", "e"}

TextsUpTo(n) == UNION {[1..k -> Alphabet] : k \in 0..n}

\* the characters of the texts that operands are parsed from
OperandAlphabet == {"0", "1", ".", "-"}

Unset == <<"unset">>

IsDigit(ch) == ch \in {"0", "1", "2", "3", "4", "5", "6", "7", "8", "9"}

DigitVal(ch) ==
    CASE ch = "0" -> 0 [] ch = "1" -> 1 [] ch = "2" -> 2 [] ch = "3" -> 3
      [] ch = "4" -> 4 [] ch = "5" -> 5 [] ch = "6" -> 6 [] ch = "7" -> 7
      [] ch = "8" -> 8 [] ch = "9" -> 9

-----------------------------------------------------------------------------
(* Integer and rational arithmetic (rug) *)

Abs(n) == IF n < 0 THEN -n ELSE n

Sign(n) == IF n < 0 THEN -1 ELSE IF n = 0 THEN 0 ELSE 1

RECURSIVE Gcd(_, _)
Gcd(x, y) == IF y = 0 THEN Abs(x) ELSE Gcd(y, Abs(x) % Abs(y))

RECURSIVE Pow(_, _)
Pow(base, e) == IF e = 0 THEN 1 ELSE base * Pow(base, e - 1)

\* rug's integer division truncates towards zero
TruncDiv(n, d) == Sign(n) * Sign(d) * (Abs(n) \div Abs(d))

\* rug::Integer::is_divisible: n = q * d for some integer q (only 0 is divisible by 0)
is_divisible(n, d) == IF d = 0 THEN n = 0 ELSE Abs(n) % Abs(d) = 0

\* rug::Rational::from((n, d)): the canonical form, d > 0 and no common factor
Canonical(n, d) ==
    LET g == Gcd(n, d)
    IN  [num |-> Sign(d) * (n \div g), den |-> Abs(d) \div g]

-----------------------------------------------------------------------------
(* PerfectPrecisionNumber *)

Integer(n) == [tag |-> "Integer", num |-> n, den |-> 1]

IntegerFromFloat(n) == [tag |-> "IntegerFromFloat", num |-> n, den |-> 1]

RationalUnreduced(n, d) == [tag |-> "Rational", num |-> n, den |-> d]

Rational(n, d) ==
    LET q == Canonical(n, d)
    IN  [tag |-> "Rational", num |-> q.num, den |-> q.den]

NoNumber == [tag |-> "none", num |-> 0, den |-> 1]

Ok(v) == [ok |-> TRUE, val |-> v, err |-> "none"]

Err(msg) == [ok |-> FALSE, val |-> NoNumber, err |-> msg]

MultiplePoints == "Multiple decimal points in the input string"
InvalidDigit == "Invalid digit (accepted digits in [0-9])"
InfiniteNumber == "Infinite numbers are not managed"
NaNNumber == "NaN numbers are not managed"

RECURSIVE DigitsValue(_, _, _)
DigitsValue(s, i, acc) ==
    IF i > Len(s) THEN acc ELSE DigitsValue(s, i + 1, acc * 10 + DigitVal(s[i]))

\* value.parse::<rug::Integer>(): an optional minus or plus sign, then one or
\* more digits
IntegerParse(value) ==
    LET signed == Len(value) > 0 /\ value[1] \in {"-", "+"}
        body == IF signed THEN Tail(value) ELSE value
    IN  IF Len(body) > 0 /\ \A i \in 1..Len(body) : IsDigit(body[i])
        THEN [ok |-> TRUE,
              val |-> (IF signed /\ value[1] = "-" THEN -1 ELSE 1) * DigitsValue(body, 1, 0)]
        ELSE [ok |-> FALSE, val |-> 0]

ClassifyIgnoringZeros(numerator, denominator, found_decimal_point, only_zeros_after_decimal_point) ==
    IF denominator = 1
    THEN IF found_decimal_point THEN Ok(IntegerFromFloat(numerator)) ELSE Ok(Integer(numerator))
    ELSE Ok(Rational(numerator, denominator))

\* from_str, after the character loop
Classify(numerator, denominator, found_decimal_point, only_zeros_after_decimal_point) ==
    IF denominator = 1
    THEN IF found_decimal_point THEN Ok(IntegerFromFloat(numerator)) ELSE Ok(Integer(numerator))
    ELSE IF only_zeros_after_decimal_point
         THEN Ok(IntegerFromFloat(TruncDiv(numerator, denominator)))
         ELSE Ok(Rational(numerator, denominator))

\* from_str, the character loop from position i on
RECURSIVE ParseChars(_, _, _, _, _, _)
ParseChars(s, i, numerator, denominator, found_decimal_point, only_zeros_after_decimal_point) ==
    IF i > Len(s)
    THEN Classify(numerator, denominator, found_decimal_point, only_zeros_after_decimal_point)
    ELSE IF s[i] = "."
         THEN IF found_decimal_point
              THEN Err(MultiplePoints)
              ELSE ParseChars(s, i + 1, numerator, denominator, TRUE,
                              only_zeros_after_decimal_point)
         ELSE IF IsDigit(s[i])
              THEN ParseChars(s, i + 1, numerator * 10 + DigitVal(s[i]),
                              IF found_decimal_point THEN denominator * 10 ELSE denominator,
                              found_decimal_point,
                              only_zeros_after_decimal_point
                                  /\ ~(found_decimal_point /\ DigitVal(s[i]) # 0))
              ELSE Err(InvalidDigit)

from_str(value) ==
    LET integer == IntegerParse(value)
        minus == Len(value) > 0 /\ value[1] = "-"
    IN  IF integer.ok
        THEN Ok(Integer(integer.val))
        ELSE ParseChars(value, IF minus THEN 2 ELSE 1, 0, IF minus THEN -1 ELSE 1, FALSE, TRUE)

\* From<i8 .. u128>
from_int(value) == Integer(value)

\* A native float: m / 2^e, an infinity or a NaN
Floats ==
    {[cls |-> "finite", m |-> m, e |-> e] : m \in -MaxMant..MaxMant, e \in 0..MaxExp}
        \cup {[cls |-> c, m |-> 0, e |-> 0] : c \in {"inf", "nan"}}

\* value.fract() == 0.0
FractIsZero(value) == is_divisible(value.m, Pow(2, value.e))

try_from_float_keeping_rational(value) ==
    IF value.cls = "finite"
    THEN Ok(Rational(value.m, Pow(2, value.e)))
    ELSE IF value.cls = "inf" THEN Err(InfiniteNumber) ELSE Err(NaNNumber)

try_from_float_one_error(value) ==
    IF value.cls = "finite"
    THEN IF FractIsZero(value)
         THEN Ok(IntegerFromFloat(Canonical(value.m, Pow(2, value.e)).num))
         ELSE Ok(Rational(value.m, Pow(2, value.e)))
    ELSE Err(InfiniteNumber)

\* TryFrom<f32 / f64>
try_from_float(value) ==
    IF value.cls = "finite"
    THEN IF FractIsZero(value)
         THEN Ok(IntegerFromFloat(Canonical(value.m, Pow(2, value.e)).num))
         ELSE Ok(Rational(value.m, Pow(2, value.e)))
    ELSE IF value.cls = "inf" THEN Err(InfiniteNumber) ELSE Err(NaNNumber)

IsIntegerLike(x) == x.tag \in {"Integer", "IntegerFromFloat"}

eq_by_tag(self, other) == self = other

\* PartialEq
eq(self, other) ==
    IF IsIntegerLike(self) /\ IsIntegerLike(other) THEN self.num = other.num
    ELSE IF self.tag = "Rational" /\ other.tag = "Rational"
         THEN self.num = other.num /\ self.den = other.den
         ELSE FALSE

CmpInt(x, y) == IF x < y THEN "Less" ELSE IF x = y THEN "Equal" ELSE "Greater"

\* rug::Rational::cmp, both canonical
CmpRational(pn, pd, qn, qd) == CmpInt(pn * qd, qn * pd)

partial_cmp_truncating(self, other) ==
    IF IsIntegerLike(self) /\ IsIntegerLike(other) THEN CmpInt(self.num, other.num)
    ELSE IF IsIntegerLike(self) THEN CmpInt(self.num, TruncDiv(other.num, other.den))
    ELSE IF IsIntegerLike(other) THEN CmpInt(TruncDiv(self.num, self.den), other.num)
    ELSE CmpRational(self.num, self.den, other.num, other.den)

\* PartialOrd: never None
partial_cmp(self, other) ==
    IF IsIntegerLike(self) /\ IsIntegerLike(other) THEN CmpInt(self.num, other.num)
    ELSE IF IsIntegerLike(self) THEN CmpRational(self.num, 1, other.num, other.den)
    ELSE IF IsIntegerLike(other) THEN CmpRational(self.num, self.den, other.num, 1)
    ELSE CmpRational(self.num, self.den, other.num, other.den)

\* Ord::cmp: partial_cmp(..).expect(..)
cmp(self, other) == partial_cmp(self, other)

\* self >= other
ge(self, other) == cmp(self, other) \in {"Equal", "Greater"}

\* Hash: what is fed to the hasher
hash(self) ==
    IF self.tag = "Integer" THEN <<"int", 0, self.num>>
    ELSE IF self.tag = "IntegerFromFloat" THEN <<"int", 1, self.num>>
    ELSE <<"rat", self.num, self.den>>

is_multiple_of_denominator(self, number) ==
    IF IsIntegerLike(self) /\ IsIntegerLike(number) THEN is_divisible(self.num, number.num)
    ELSE IF IsIntegerLike(self) THEN is_divisible(self.num, number.den)
    ELSE IF IsIntegerLike(number) THEN FALSE
    ELSE Canonical(self.num * number.den, self.den * number.num).den = 1

is_multiple_of(self, number) ==
    IF IsIntegerLike(self) /\ IsIntegerLike(number) THEN is_divisible(self.num, number.num)
    ELSE IF IsIntegerLike(self) THEN is_divisible(self.num, number.num)
    ELSE IF IsIntegerLike(number) THEN FALSE
    ELSE Canonical(self.num * number.den, self.den * number.num).den = 1

\* the debug_assert_ne! of is_multiple_of on its Rational receiver
DenominatorIsNotOne(self) == self.den # 1

-----------------------------------------------------------------------------
(* The exact number engine at work: numbers are constructed, then compared *)

-----------------------------------------------------------------------------
(* Number literals and the native floats they are read as *)

FirstIndex(s, ch) ==
    IF \E i \in 1..Len(s) : s[i] = ch
    THEN CHOOSE i \in 1..Len(s) : s[i] = ch /\ \A j \in 1..(i - 1) : s[j] # ch
    ELSE Len(s) + 1

\* the parts of a number literal: sign, integer digits, fraction digits, exponent
PartsOf(minus, mantissa, pPos, hasExp, exponent) ==
    [minus |-> minus,
     int |-> SubSeq(mantissa, 1, pPos - 1),
     hasFrac |-> pPos <= Len(mantissa),
     frac |-> SubSeq(mantissa, pPos + 1, Len(mantissa)),
     hasExp |-> hasExp,
     expMinus |-> Len(exponent) > 0 /\ exponent[1] = "-",
     exp |-> IF Len(exponent) > 0 /\ exponent[1] \in {"-", "+"}
             THEN Tail(exponent) ELSE exponent]

SplitMantissa(minus, mantissa, hasExp, exponent) ==
    PartsOf(minus, mantissa, FirstIndex(mantissa, "."), hasExp, exponent)

SplitExponent(minus, u, ePos) ==
    SplitMantissa(minus, SubSeq(u, 1, ePos - 1), ePos <= Len(u), SubSeq(u, ePos + 1, Len(u)))

Unsign(minus, u) == SplitExponent(minus, u, FirstIndex(u, "e"))

LiteralParts(t) ==
    IF Len(t) > 0 /\ t[1] = "-" THEN Unsign(TRUE, Tail(t)) ELSE Unsign(FALSE, t)

IsDigits(s) == Len(s) > 0 /\ \A i \in 1..Len(s) : IsDigit(s[i])

\* the JSON grammar of a number: -? (0 | [1-9][0-9]*) (. [0-9]+)? (e [+-]? [0-9]+)?
WellFormed(p) ==
    /\ IsDigits(p.int)
    /\ (Len(p.int) = 1 \/ p.int[1] # "0")
    /\ p.hasFrac => IsDigits(p.frac)
    /\ p.hasExp => IsDigits(p.exp)

IsJsonNumber(t) == WellFormed(LiteralParts(t))

Scaled(sign, digits, e) ==
    IF e >= 0 THEN Canonical(sign * digits * Pow(10, e), 1)
    ELSE Canonical(sign * digits, Pow(10, -e))

ValueOfParts(p) ==
    Scaled(IF p.minus THEN -1 ELSE 1,
           DigitsValue(p.int \o p.frac, 1, 0),
           (IF p.hasExp THEN (IF p.expMinus THEN -1 ELSE 1) * DigitsValue(p.exp, 1, 0) ELSE 0)
               - Len(p.frac))

\* the decimal value of a JSON number literal, as a canonical fraction
LiteralValue(t) == ValueOfParts(LiteralParts(t))

RoundHalfEven(floor, rest, d) ==
    IF 2 * rest < d THEN floor
    ELSE IF 2 * rest > d THEN floor + 1
    ELSE IF floor % 2 = 0 THEN floor ELSE floor + 1

\* the binary exponent at which n / d has a mantissa of MantissaBits bits
RECURSIVE ScaleOf(_, _, _)
ScaleOf(n, d, k) ==
    IF n * Pow(2, k) >= Pow(2, MantissaBits - 1) * d THEN k ELSE ScaleOf(n, d, k + 1)

FloatAt(sign, n, d, k) ==
    [cls |-> "finite",
     m |-> sign * RoundHalfEven((n * Pow(2, k)) \div d, (n * Pow(2, k)) % d, d),
     e |-> k]

\* the power of two that the floats from n / d on are multiples of
RECURSIVE StepOf(_, _, _)
StepOf(n, d, j) ==
    IF n < Pow(2, MantissaBits) * d * Pow(2, j) THEN j ELSE StepOf(n, d, j + 1)

\* n / d >= 2^MantissaBits rounded to a multiple of 2^j
FloatAbove(sign, n, d, j) ==
    [cls |-> "finite",
     m |-> sign * Pow(2, j)
              * RoundHalfEven(n \div (d * Pow(2, j)), n % (d * Pow(2, j)), d * Pow(2, j)),
     e |-> 0]

\* the float nearest to the fraction q (ties to even)
FloatNear(q) ==
    IF q.num = 0 THEN [cls |-> "finite", m |-> 0, e |-> 0]
    ELSE IF Abs(q.num) >= Pow(2, MantissaBits) * q.den
    THEN FloatAbove(Sign(q.num), Abs(q.num), q.den, StepOf(Abs(q.num), q.den, 1))
    ELSE FloatAt(Sign(q.num), Abs(q.num), q.den, ScaleOf(Abs(q.num), q.den, 0))

\* Number::as_f64, str::parse::<f64>: the float a literal is read as
as_f64(t) == FloatNear(LiteralValue(t))

\* a text that str::parse::<f64> and from_str both read
IsFloatLiteral(t) ==
    /\ Len(t) > 0
    /\ from_str(t).ok
    /\ t[1] # "+"
    /\ \E i \in 1..Len(t) : IsDigit(t[i])

OperandTexts == UNION {[1..k -> OperandAlphabet] : k \in 0..MaxOperandLen}

NativeInts == -MaxInt..MaxInt

\* every exact number a constructor returns within the bounds
Operands ==
    {from_str(t).val : t \in {u \in OperandTexts : from_str(u).ok}}
        \cup {from_int(n) : n \in NativeInts}
        \cup {try_from_float(f).val : f \in {g \in Floats : try_from_float(g).ok}}

NoResult == [op |-> "none", ab |-> "none", ba |-> "none", bc |-> "none", ac |-> "none",
             flag |-> FALSE]

\* before a keyword is compiled and an instance validated
NoValidator == [st |-> "none", keyword |-> "none", name |-> "none", draft |-> 0,
                schema |-> [kind |-> "unset", flag |-> FALSE, text |-> <<>>, items |-> <<>>],
                limit |-> NoNumber]

NoInstance == [kind |-> "unset", flag |-> FALSE, text |-> <<>>, items |-> <<>>]

NoErrors == [st |-> "unset", list |-> <<>>]

FormatNames ==
    {"date-time", "date", "email", "hostname", "idn-email", "idn-hostname", "ipv4", "ipv6",
     "iri-reference", "iri", "json-pointer", "regex", "relative-json-pointer", "time",
     "uri-reference", "uri-template", "uri"}

\* DEFAULT_FORMAT_HANDLERS: the compile of its validator under each name; a
\* handler is named by the format its validator checks
DEFAULT_FORMAT_HANDLERS == [name \in FormatNames |-> name]

\* the threads that share the compiled validator
Threads == {"a", "b"}

\* a thread that has not called: seen is the HashSet of its call, next the
\* element its iterator is at, clash what the keys of that set do
NoCall ==
    [pc |-> "idle", instance |-> NoInstance, clash |-> FALSE, next |-> 1, seen |-> {},
     result |-> "unset"]

\* name() was not called
NoDescription == [keyword |-> "none", num |-> 0, den |-> 1, text |-> <<>>]

InitNumber ==
    /\ text = Unset
    /\ parsed = Err("none")
    /\ nums = <<>>
    /\ res = NoResult
    /\ engine = "exact"
    /\ validator = NoValidator
    /\ instance = NoInstance
    /\ verdict = "unset"
    /\ errors = NoErrors
    /\ registry = DEFAULT_FORMAT_HANDLERS
    /\ calls = [c \in Threads |-> NoCall]
    /\ description = NoDescription

\* "…".parse::<PerfectPrecisionNumber>() on a text of its own
Parse(t) ==
    /\ nums = <<>>
    /\ text = Unset
    /\ parsed = Err("none")
    /\ text' = t
    /\ parsed' = from_str(t)
    /\ UNCHANGED <<nums, res>>
    /\ UNCHANGED validateVars

Push(v) == nums' = Append(nums, v)

FromStr(t) ==
    /\ text = Unset
    /\ Len(nums) < 2
    /\ res = NoResult
    /\ from_str(t).ok
    /\ Push(from_str(t).val)
    /\ UNCHANGED <<text, parsed, res>>
    /\ UNCHANGED validateVars

FromInt(n) ==
    /\ text = Unset
    /\ Len(nums) < 2
    /\ res = NoResult
    /\ Push(from_int(n))
    /\ UNCHANGED <<text, parsed, res>>
    /\ UNCHANGED validateVars

TryFromFloat(f) ==
    /\ text = Unset
    /\ Len(nums) < 2
    /\ res = NoResult
    /\ parsed.err = "none"
    /\ IF try_from_float(f).ok
       THEN Push(try_from_float(f).val) /\ UNCHANGED parsed
       ELSE parsed' = try_from_float(f) /\ UNCHANGED nums
    /\ UNCHANGED <<text, res>>
    /\ UNCHANGED validateVars

\* the same literal read as text and, through its native float, by try_from
ParseAndFromFloat(t) ==
    /\ nums = <<>>
    /\ text = Unset
    /\ parsed = Err("none")
    /\ IsFloatLiteral(t)
    /\ text' = t
    /\ parsed' = from_str(t)
    /\ nums' = <<try_from_float(as_f64(t)).val>>
    /\ UNCHANGED res
    /\ UNCHANGED validateVars

\* value1.cmp(&value2), with a third number c for the order's laws
Compare(c) ==
    /\ Len(nums) = 2
    /\ res = NoResult
    /\ LET a == nums[1]
           b == nums[2]
       IN  res' = [op |-> "cmp", ab |-> cmp(a, b), ba |-> cmp(b, a), bc |-> cmp(b, c),
                   ac |-> cmp(a, c), flag |-> eq(a, b)]
    /\ UNCHANGED <<text, parsed, nums>>
    /\ UNCHANGED validateVars

\* number_.is_multiple_of(&multiple_of_)
IsMultipleOf ==
    /\ Len(nums) = 2
    /\ res = NoResult
    /\ res' = [NoResult EXCEPT !.op = "is_multiple_of",
                               !.flag = is_multiple_of(nums[1], nums[2])]
    /\ UNCHANGED <<text, parsed, nums>>
    /\ UNCHANGED validateVars

NextNumber ==
    \/ \E t \in TextsUpTo(MaxTextLen) : Parse(t)
    \/ \E t \in OperandTexts : FromStr(t)
    \/ \E n \in NativeInts : FromInt(n)
    \/ \E f \in Floats : TryFromFloat(f)
    \/ \E t \in TextsUpTo(MaxTextLen) : ParseAndFromFloat(t)
    \/ \E c \in Operands : Compare(c)
    \/ IsMultipleOf

SpecNumber == InitNumber /\ [][NextNumber]_vars

-----------------------------------------------------------------------------
(* JSON values (serde_json::Value).  A number keeps the literal it was     *)
(* written with; what a build makes of the literal comes below.            *)

Null == [kind |-> "null", flag |-> FALSE, text |-> <<>>, items |-> <<>>]

Bool(b) == [kind |-> "bool", flag |-> b, text |-> <<>>, items |-> <<>>]

Number(t) == [kind |-> "number", flag |-> FALSE, text |-> t, items |-> <<>>]

String(t) == [kind |-> "string", flag |-> FALSE, text |-> t, items |-> <<>>]

Array(items) == [kind |-> "array", flag |-> FALSE, text |-> <<>>, items |-> items]

\* Value::Object(Map): the keys in the order the map iterates them (text), and
\* the value of each key (items); no key comes twice
Object(keys, values) == [kind |-> "object", flag |-> FALSE, text |-> keys, items |-> values]

\* the value of a finite float, as a fraction
FloatValue(f) == Canonical(f.m, Pow(2, f.e))

NativeOf(p, v, f) ==
    IF ~p.hasFrac /\ ~p.hasExp /\ ~p.minus
    THEN [tag |-> "PosInt", num |-> v.num, den |-> 1, negzero |-> FALSE]
    ELSE IF ~p.hasFrac /\ ~p.hasExp /\ v.num < 0
         THEN [tag |-> "NegInt", num |-> v.num, den |-> 1, negzero |-> FALSE]
         ELSE [tag |-> "Float", num |-> f.num, den |-> f.den,
               negzero |-> p.minus /\ v.num = 0]

\* serde_json::Number without arbitrary_precision: PosInt(u64), NegInt(i64) or
\* Float(f64).  A float is the float nearest to the literal, with the sign
\* of its zero.  The integers of the model are within u64 and i64.
NativeNumber(t) == NativeOf(LiteralParts(t), LiteralValue(t), FloatValue(as_f64(t)))

\* Number::as_u64, as_i64 (is it Some?)
IsU64(n) == n.tag = "PosInt"

IsI64(n) == n.tag \in {"PosInt", "NegInt"}

NativeEq(n1, n2) == n1.tag = n2.tag /\ n1.num = n2.num /\ n1.den = n2.den

\* serde_json: Number == Number
NumberEq(e, t1, t2) ==
    IF e = "exact" THEN t1 = t2 ELSE NativeEq(NativeNumber(t1), NativeNumber(t2))

\* serde_json: Value == Value
RECURSIVE ValueEq(_, _, _)
ValueEq(e, x, y) ==
    /\ x.kind = y.kind
    /\ CASE x.kind = "null" -> TRUE
         [] x.kind = "bool" -> x.flag = y.flag
         [] x.kind = "number" -> NumberEq(e, x.text, y.text)
         [] x.kind = "string" -> x.text = y.text
         [] x.kind = "array" ->
                /\ Len(x.items) = Len(y.items)
                /\ \A i \in 1..Len(x.items) : ValueEq(e, x.items[i], y.items[i])
         [] x.kind = "object" ->
                /\ Len(x.items) = Len(y.items)
                /\ \A i \in 1..Len(x.items) : \E j \in 1..Len(y.items) :
                       x.text[i] = y.text[j] /\ ValueEq(e, x.items[i], y.items[j])

\* From<&Number> for PerfectPrecisionNumber: to_string().parse().expect(..)
\* panics when the literal does not parse
FromNumberPanics(t) == ~from_str(t).ok

FromNumber(t) == from_str(t).val

-----------------------------------------------------------------------------
(* HashedValue: equality and hash of the elements of an array *)

\* impl PartialEq for HashedValue
HashedValue_eq(e, x, y) ==
    IF x.kind = "number" /\ y.kind = "number"
    THEN IF e = "exact"
         THEN x.text = y.text \/ eq(FromNumber(x.text), FromNumber(y.text))
         ELSE NumberEq(e, x.text, y.text)
    ELSE ValueEq(e, x, y)

Token(t, s, n, d) == [t |-> t, s |-> s, n |-> n, d |-> d, x |-> {}]

\* state.write_u64(hash) of an object: the exclusive or of what the
\* DefaultHasher of each entry finished with, named by the entries hashed
XorToken(entries) == [t |-> "u64, xor of", s |-> <<>>, n |-> 0, d |-> 0, x |-> entries]

ExactFeed(h) == Token(h[1], <<>>, h[2], h[3])

NativeFeed(n) ==
    IF IsU64(n) THEN Token("u64", <<>>, n.num, 1)
    ELSE IF IsI64(n) THEN Token("i64", <<>>, n.num, 1)
    ELSE Token(IF n.negzero THEN "f64 bits, sign set" ELSE "f64 bits", <<>>, n.num, n.den)

\* what a number feeds to the hasher
NumberFeed(e, t) ==
    IF e = "exact" THEN ExactFeed(hash(FromNumber(t))) ELSE NativeFeed(NativeNumber(t))

\* impl Hash for HashedValue, on each of items in turn: the data written to
\* the hasher
RECURSIVE FeedOfItems(_, _)
FeedOfItems(e, items) ==
    IF items = <<>> THEN <<>>
    ELSE LET x == Head(items)
         IN  (CASE x.kind = "null" -> <<Token("u32 3221225473", <<>>, 0, 0)>>
                [] x.kind = "bool" -> <<Token("bool", <<>>, IF x.flag THEN 1 ELSE 0, 0)>>
                [] x.kind = "number" -> <<NumberFeed(e, x.text)>>
                [] x.kind = "string" -> <<Token("str", x.text, 0, 0)>>
                [] x.kind = "array" -> FeedOfItems(e, x.items)
                [] x.kind = "object" ->
                       <<XorToken({<<x.text[i], FeedOfItems(e, <<x.items[i]>>)>> :
                                      i \in 1..Len(x.items)})>>)
             \o FeedOfItems(e, Tail(items))

HashedValue_hash(e, x) == FeedOfItems(e, <<x>>)

\* hashing x converts every number in it and panics with the conversion
RECURSIVE HashPanics(_, _)
HashPanics(e, x) ==
    \/ e = "exact" /\ x.kind = "number" /\ FromNumberPanics(x.text)
    \/ x.kind \in {"array", "object"} /\ \E i \in 1..Len(x.items) : HashPanics(e, x.items[i])

\* HashSet::insert finds y among the elements seen: an equal element is looked
\* for where its hash leads, so it is found when the hashes are the same, and
\* also when the keys of this set's RandomState make two different feeds
\* collide (clash).
FoundInSet(e, clash, x, y) ==
    HashedValue_eq(e, x, y) /\ (HashedValue_hash(e, x) = HashedValue_hash(e, y) \/ clash)

\* items.iter().map(HashedValue).all(|x| seen.insert(x)), from element i on
RECURSIVE AllInserted(_, _, _, _)
AllInserted(e, clash, items, i) ==
    IF i > Len(items) THEN "true"
    ELSE IF HashPanics(e, items[i]) THEN "panic"
    ELSE IF \E j \in 1..(i - 1) : FoundInSet(e, clash, items[j], items[i]) THEN "false"
    ELSE AllInserted(e, clash, items, i + 1)

is_unique(e, clash, items) == AllInserted(e, clash, items, 1)

-----------------------------------------------------------------------------
(* The leaf validators: what compile builds, and is_valid and validate *)

Bit(b) == IF b THEN "true" ELSE "false"

\* error::no_error() and the one error of build_validation_error
no_error == [st |-> "done", list |-> <<>>]

error(kind) == [st |-> "done", list |-> <<kind>>]

Panicked == [st |-> "panic", list |-> <<>>]

\* Validate::validate_<kind>, as the trait provides it: the error of
\* build_validation_error unless the is_valid_<kind> check passes
validate_typed(check, kind) ==
    IF check = "panic" THEN Panicked
    ELSE IF check = "true" THEN no_error ELSE error(kind)

Compiled(keyword, name, draft, schema, limit) ==
    [st |-> "ok", keyword |-> keyword, name |-> name, draft |-> draft,
     schema |-> schema, limit |-> limit]

NotCompiled(st, keyword, draft, schema) ==
    [NoValidator EXCEPT !.st = st, !.keyword = keyword, !.draft = draft, !.schema = schema]

MinimumNative(schema, limit) ==
    Compiled("minimum",
             IF IsU64(limit) THEN "MinimumU64Validator"
             ELSE IF IsI64(limit) THEN "MinimumI64Validator"
             ELSE "MinimumF64Validator",
             0, schema, limit)

\* keywords::minimum::compile
Minimum_compile(e, schema) ==
    IF schema.kind # "number" THEN NotCompiled("error", "minimum", 0, schema)
    ELSE IF e = "exact"
    THEN IF FromNumberPanics(schema.text)
         THEN NotCompiled("panic", "minimum", 0, schema)
         ELSE Compiled("minimum", "MinimumValidator", 0, schema, FromNumber(schema.text))
    ELSE MinimumNative(schema, NativeNumber(schema.text))

num_ge_as_floats(x, y) ==
    FloatValue(FloatNear(x)).num * FloatValue(FloatNear(y)).den
        >= FloatValue(FloatNear(y)).num * FloatValue(FloatNear(x)).den

\* NumCmp::num_ge between u64, i64 and f64: the comparison of the values
num_ge(x, y) == x.num * y.den >= y.num * x.den

\* is_valid_perfect_precision_number, is_valid_unsigned_integer,
\* is_valid_signed_integer and is_valid_number of the minimum validators
Minimum_is_valid_number(e, v, t) ==
    IF e = "exact"
    THEN IF FromNumberPanics(t) THEN "panic" ELSE Bit(ge(FromNumber(t), v.limit))
    ELSE Bit(num_ge(NativeNumber(t), v.limit))

Minimum_is_valid(e, v, x) ==
    IF x.kind = "number" THEN Minimum_is_valid_number(e, v, x.text) ELSE "true"

Minimum_validate(e, v, x) ==
    IF x.kind = "number"
    THEN validate_typed(Minimum_is_valid_number(e, v, x.text), "minimum")
    ELSE no_error

\* f64 division: the quotient of the mantissas, rounded, at the difference of
\* the exponents (e may now be negative or large)
Shifted(sign, f, shift) == [cls |-> "finite", m |-> sign * f.m, e |-> f.e + shift]

f64_div(a, b) ==
    IF b.m = 0 THEN [cls |-> IF a.m = 0 THEN "nan" ELSE "inf", m |-> 0, e |-> 0]
    ELSE IF a.m = 0 THEN [cls |-> "finite", m |-> 0, e |-> 0]
    ELSE Shifted(Sign(a.m) * Sign(b.m),
                 FloatNear(Canonical(Abs(a.m), Abs(b.m))),
                 a.e - b.e)

\* the numerator of q % 1. over 2^q.e, for q > 0 with a fractional part
FractionOf(q) == IF q.e > 2 * MantissaBits THEN q.m ELSE q.m % Pow(2, q.e)

\* fm / 2^e < EPSILON, where EPSILON is 2^(1 - MantissaBits)
BelowEpsilon(fm, e) ==
    IF e > 2 * MantissaBits THEN TRUE
    ELSE fm * Pow(2, MantissaBits - 1) < Pow(2, e)

\* fm / 2^e < 1. - EPSILON
BelowOneMinusEpsilon(fm, e) ==
    IF e > 2 * MantissaBits THEN TRUE
    ELSE IF e >= MantissaBits - 1
    THEN fm < Pow(2, e) - Pow(2, e + 1 - MantissaBits)
    ELSE fm * Pow(2, MantissaBits - 1 - e) < Pow(2, MantissaBits - 1) - 1

\* let remainder = q % 1.; remainder < EPSILON && remainder < (1. - EPSILON)
RemainderTest(q) ==
    IF q.cls # "finite" THEN FALSE
    ELSE IF q.m <= 0 \/ q.e <= 0 THEN TRUE
    ELSE BelowEpsilon(FractionOf(q), q.e) /\ BelowOneMinusEpsilon(FractionOf(q), q.e)

\* the value of a float without fractional part
IntegerValue(a) == a.m \div Pow(2, a.e)

\* (instance_value % self.multiple_of) == 0.
f64_rem_is_zero(a, b) ==
    IF b.m = 0 THEN FALSE ELSE IntegerValue(a) % Abs(IntegerValue(b)) = 0

MultipleOfFloat_is_valid_number(v, a) == RemainderTest(f64_div(a, v.limit))

MultipleOfInteger_is_valid_number(v, a) ==
    IF FractIsZero(a) THEN f64_rem_is_zero(a, v.limit)
    ELSE RemainderTest(f64_div(a, v.limit))

MultipleOfNative(schema, multiple_of) ==
    Compiled("multipleOf",
             IF FractIsZero(multiple_of) THEN "MultipleOfIntegerValidator"
             ELSE "MultipleOfFloatValidator",
             0, schema, multiple_of)

\* keywords::multiple_of::compile
MultipleOf_compile(e, schema) ==
    IF schema.kind # "number" THEN NotCompiled("error", "multipleOf", 0, schema)
    ELSE IF e = "exact"
    THEN IF FromNumberPanics(schema.text)
         THEN NotCompiled("panic", "multipleOf", 0, schema)
         ELSE Compiled("multipleOf", "MultipleOfValidator", 0, schema,
                       FromNumber(schema.text))
    ELSE MultipleOfNative(schema, as_f64(schema.text))

\* is_valid_perfect_precision_number of MultipleOfValidator, is_valid_number of
\* MultipleOfFloatValidator and MultipleOfIntegerValidator
MultipleOf_is_valid_number(v, t) ==
    CASE v.name = "MultipleOfValidator" ->
            IF FromNumberPanics(t) THEN "panic"
            ELSE Bit(is_multiple_of(FromNumber(t), v.limit))
      [] v.name = "MultipleOfFloatValidator" ->
            Bit(MultipleOfFloat_is_valid_number(v, as_f64(t)))
      [] v.name = "MultipleOfIntegerValidator" ->
            Bit(MultipleOfInteger_is_valid_number(v, as_f64(t)))

MultipleOf_is_valid(v, x) ==
    IF x.kind = "number" THEN MultipleOf_is_valid_number(v, x.text) ELSE "true"

MultipleOf_validate(v, x) ==
    IF x.kind = "number"
    THEN validate_typed(MultipleOf_is_valid_number(v, x.text), "multiple_of")
    ELSE no_error

\* keywords::unique_items::compile
UniqueItems_compile(schema) ==
    IF schema.kind = "bool" /\ schema.flag
    THEN Compiled("uniqueItems", "UniqueItemsValidator", 0, schema, NoNumber)
    ELSE NotCompiled("dropped", "uniqueItems", 0, schema)

UniqueItems_is_valid_array(e, clash, items) == is_unique(e, clash, items)

UniqueItems_is_valid(e, clash, x) ==
    IF x.kind = "array" THEN UniqueItems_is_valid_array(e, clash, x.items) ELSE "false"

UniqueItems_validate(e, clash, x) ==
    IF x.kind = "array"
    THEN validate_typed(UniqueItems_is_valid_array(e, clash, x.items), "unique_items")
    ELSE no_error

\* the schema drafts, in the order of the Draft enum
Drafts == {4, 6, 7}

supported_for_every_draft(name, draft) == TRUE

\* supported_for_draft of each built-in format
supported_for_draft(name, draft) ==
    IF name \in {"idn-hostname", "iri", "iri-reference", "relative-json-pointer"}
    THEN draft >= 7
    ELSE IF name \in {"json-pointer", "uri-reference", "uri-template"}
    THEN draft >= 6
    ELSE TRUE

Format_compile_unknown_is_error(schema, draft) ==
    IF schema.kind = "string" /\ Len(schema.text) = 1 /\ schema.text[1] \in FormatNames
          /\ supported_for_draft(schema.text[1], draft)
    THEN Compiled("format", schema.text[1], draft, schema, NoNumber)
    ELSE NotCompiled("error", "format", draft, schema)

Format_compile_any_name(schema, draft) ==
    IF schema.kind # "string" THEN NotCompiled("error", "format", draft, schema)
    ELSE Compiled("format", schema.text[1], draft, schema, NoNumber)

\* keywords::format::compile with FormatValidatorBuilder::compile; the name of
\* a format is a text of one element
Format_compile(schema, draft) ==
    IF schema.kind # "string" THEN NotCompiled("error", "format", draft, schema)
    ELSE IF Len(schema.text) = 1 /\ schema.text[1] \in FormatNames
            /\ supported_for_draft(schema.text[1], draft)
    THEN Compiled("format", schema.text[1], draft, schema, NoNumber)
    ELSE NotCompiled("dropped", "format", draft, schema)

is_valid_email(string) == \E i \in 1..Len(string) : string[i] = "@"

IsAlphanumeric(ch) == IsDigit(ch) \/ ch \in {"a", "b", "c"}

is_valid_hostname(string) ==
    ~ \/ (Len(string) > 0 /\ string[Len(string)] = "-")
      \/ (Len(string) > 0 /\ string[1] = "-")
      \/ Len(string) = 0
      \/ Len(string) > 255
      \/ \E i \in 1..Len(string) :
            ~(IsAlphanumeric(string[i]) \/ string[i] = "-" \/ string[i] = ".")
      \/ \E i \in 1..Len(string) : \E j \in i..Len(string) :
            j - i + 1 > 63 /\ \A k \in i..j : string[k] # "."

\* the strings given to a format: none of them is a date, a time, an address,
\* an absolute URI or a JSON pointer; each of them is a pattern, a reference
\* and a template
Strings == {<<"a">>, <<"a", "@">>, <<"-">>}

\* check_string of each built-in format, on Strings
check_string(name, string) ==
    CASE name \in {"email", "idn-email"} -> is_valid_email(string)
      [] name \in {"hostname", "idn-hostname"} -> is_valid_hostname(string)
      [] name \in {"regex", "iri-reference", "uri-reference", "uri-template"} -> TRUE
      [] OTHER -> FALSE

\* Validate for a FormatValidator: is_valid_<kind> is check_<kind>, which
\* only check_string overrides
Format_is_valid_typed(v, x) ==
    IF x.kind = "string" THEN Bit(check_string(v.name, x.text)) ELSE "true"

\* Validate::is_valid and Validate::validate, as the trait provides them: the
\* typed check of the instance's kind
Format_is_valid(v, x) == Format_is_valid_typed(v, x)

Format_validate(v, x) == validate_typed(Format_is_valid_typed(v, x), "format")

\* format!("<keyword>: {}", ..): the keyword written and the value shown
Described(keyword, num, den, shown) ==
    [keyword |-> keyword, num |-> num, den |-> den, text |-> shown]

\* Display of the limit: a PerfectPrecisionNumber shows its integer, or the
\* f64 nearest to its rational; u64, i64 and f64 show their value
Shown(e, v) ==
    IF e = "exact"
    THEN IF v.limit.tag = "Rational" THEN FloatValue(FloatNear(v.limit)) ELSE v.limit
    ELSE IF v.keyword = "multipleOf" THEN FloatValue(v.limit) ELSE v.limit

\* validate!: fn name
Minimum_name(e, v) == Described("exclusiveMinimum", Shown(e, v).num, Shown(e, v).den, <<>>)

MultipleOf_name(e, v) == Described("multipleOf", Shown(e, v).num, Shown(e, v).den, <<>>)

UniqueItems_name == Described("uniqueItems", 0, 1, <<"true">>)

\* FormatValidator::default_to_string
Format_name(v) == Described("format", 0, 1, <<v.name>>)

\* validator.name()
Validate_name(e, v) ==
    CASE v.keyword = "minimum" -> Minimum_name(e, v)
      [] v.keyword = "multipleOf" -> MultipleOf_name(e, v)
      [] v.keyword = "uniqueItems" -> UniqueItems_name
      [] v.keyword = "format" -> Format_name(v)

\* compile of the keyword
compile(e, keyword, schema, draft) ==
    CASE keyword = "minimum" -> Minimum_compile(e, schema)
      [] keyword = "multipleOf" -> MultipleOf_compile(e, schema)
      [] keyword = "uniqueItems" -> UniqueItems_compile(schema)
      [] keyword = "format" -> Format_compile(schema, draft)

\* validator.is_valid(schema, instance)
is_valid(e, clash, v, x) ==
    CASE v.keyword = "minimum" -> Minimum_is_valid(e, v, x)
      [] v.keyword = "multipleOf" -> MultipleOf_is_valid(v, x)
      [] v.keyword = "uniqueItems" -> UniqueItems_is_valid(e, clash, x)
      [] v.keyword = "format" -> Format_is_valid(v, x)

\* validator.validate(schema, instance)
validate(e, clash, v, x) ==
    CASE v.keyword = "minimum" -> Minimum_validate(e, v, x)
      [] v.keyword = "multipleOf" -> MultipleOf_validate(v, x)
      [] v.keyword = "uniqueItems" -> UniqueItems_validate(e, clash, x)
      [] v.keyword = "format" -> Format_validate(v, x)

-----------------------------------------------------------------------------
(* Schemas and instances *)

JsonAlphabet == {"0", "1", ".", "-"}

\* literals with an exponent
ExponentLiterals == {<<"1", "e", "0">>, <<"1", "e", "1">>}

JsonNumbers(n) ==
    {t \in UNION {[1..k -> JsonAlphabet] : k \in 1..n} : IsJsonNumber(t)} \cup ExponentLiterals

Keywords == {"minimum", "multipleOf", "uniqueItems", "format"}

\* names that are not the name of a format
OtherNames == {"custom", "no-such-format", "EMAIL", "datetime"}

Schemas ==
    {Number(t) : t \in JsonNumbers(MaxLimitLen)}
        \cup {Null, Bool(TRUE), Bool(FALSE)}
        \cup {String(<<name>>) : name \in FormatNames \cup OtherNames}

\* the elements of an instance array
ElementLiterals ==
    {<<"1">>, <<"1", ".", "0">>, <<"1", ".", "0", "0">>, <<"0", ".", "0">>,
     <<"-", "0", ".", "0">>, <<"1", "e", "0">>}

Elements == {Null, Bool(TRUE), String(<<"a">>)} \cup {Number(t) : t \in ElementLiterals}

Arrays == {Array(items) : items \in UNION {[1..k -> Elements] : k \in 0..MaxItems}}

Instances ==
    {Null, Bool(TRUE), Bool(FALSE)}
        \cup {String(t) : t \in Strings}
        \cup {Number(t) : t \in JsonNumbers(MaxLiteralLen)}
        \cup Arrays

InitValidate ==
    /\ engine \in {"exact", "fast"}
    /\ validator = NoValidator
    /\ instance = NoInstance
    /\ verdict = "unset"
    /\ errors = NoErrors
    /\ registry = DEFAULT_FORMAT_HANDLERS
    /\ calls = [c \in Threads |-> NoCall]
    /\ description = NoDescription
    /\ text = Unset
    /\ parsed = Err("none")
    /\ nums = <<>>
    /\ res = NoResult

\* the names a caller registers a checker of its own under
RegisteredNames == {"custom", "email"}

\* the handler of a caller's checker
CustomHandler == "custom checker"

\* a caller maps a format name to the constructor of its own checker, before
\* any schema is compiled
Register(name) ==
    /\ validator.st = "none"
    /\ registry' = (name :> CustomHandler) @@ registry
    /\ UNCHANGED <<engine, validator, instance, verdict, errors, calls, description>>
    /\ UNCHANGED numberVars

\* the keyword of a schema is compiled under a draft
Compile ==
    /\ validator.st = "none"
    /\ \E keyword \in Keywords : \E schema \in Schemas : \E draft \in Drafts :
          /\ validator' = compile(engine, keyword, schema,
                                  IF keyword = "format" THEN draft ELSE 0)
    /\ UNCHANGED <<engine, instance, verdict, errors, registry, calls, description>>
    /\ UNCHANGED numberVars

\* validator.is_valid(&schema, &instance); clash is what the keys of the
\* call's hash set make of two different hashes
IsValid ==
    /\ validator.st = "ok"
    /\ verdict = "unset"
    /\ \E x \in Instances : \E clash \in BOOLEAN :
          /\ instance' = x
          /\ verdict' = is_valid(engine, clash, validator, x)
    /\ UNCHANGED <<engine, validator, errors, registry, calls, description>>
    /\ UNCHANGED numberVars

\* validator.validate(&schema, &instance) on the same instance
Validate ==
    /\ verdict \in {"true", "false"}
    /\ errors = NoErrors
    /\ \E clash \in BOOLEAN : errors' = validate(engine, clash, validator, instance)
    /\ UNCHANGED <<engine, validator, instance, verdict, registry, calls, description>>
    /\ UNCHANGED numberVars

NextValidate ==
    \/ \E name \in RegisteredNames : Register(name)
    \/ Compile
    \/ IsValid
    \/ Validate

SpecValidate == InitValidate /\ [][NextValidate]_vars

-----------------------------------------------------------------------------
(* Calls of several threads on one compiled validator *)

\* the schemas of the shared validator
SharedSchemas == {Number(<<"1">>), Bool(TRUE), String(<<"email">>)}

SharedElements == {Number(<<"1">>), Number(<<"1", ".", "0">>)}

\* the instances the threads validate
SharedInstances ==
    {Number(<<"1">>), String(<<"a">>)}
        \cup {Array(items) : items \in UNION {[1..k -> SharedElements] : k \in 0..MaxItems}}

\* the validator is compiled once, before any thread calls it
CompileShared ==
    /\ validator.st = "none"
    /\ \E keyword \in Keywords : \E schema \in SharedSchemas :
          validator' = compile(engine, keyword, schema, IF keyword = "format" THEN 7 ELSE 0)
    /\ UNCHANGED <<engine, instance, verdict, errors, registry, calls, description>>
    /\ UNCHANGED numberVars

\* the call walks an array element by element with a set of its own
WalksItems(call) == validator.keyword = "uniqueItems" /\ call.instance.kind = "array"

seen_of_any_call(cs, c) == UNION {cs[d].seen : d \in Threads}

\* let mut seen = HashSet::with_capacity(items.len()): the set of the call
seen_of(cs, c) == cs[c].seen

\* a thread calls validator.is_valid(&schema, &instance)
Begin(c) ==
    /\ validator.st = "ok"
    /\ calls[c].pc = "idle"
    /\ \E x \in SharedInstances : \E clash \in BOOLEAN :
          calls' = [calls EXCEPT ![c] = [pc |-> "running", instance |-> x, clash |-> clash,
                                         next |-> 1, seen |-> {}, result |-> "unset"]]
    /\ UNCHANGED <<engine, validator, instance, verdict, errors, registry, description>>
    /\ UNCHANGED numberVars

\* the outcome of seen.insert(x) for the element the call is at: the
\* conversion of a number of x panics, x is found among the elements seen,
\* or x is inserted
InsertOutcome(c) ==
    IF HashPanics(engine, calls[c].instance.items[calls[c].next]) THEN "panic"
    ELSE IF \E y \in seen_of(calls, c) :
               FoundInSet(engine, calls[c].clash, y, calls[c].instance.items[calls[c].next])
    THEN "false"
    ELSE "inserted"

\* one round of all(|x| seen.insert(x)); the set is dropped when all returns
Insert(c) ==
    /\ calls[c].pc = "running"
    /\ WalksItems(calls[c])
    /\ calls[c].next <= Len(calls[c].instance.items)
    /\ calls' =
          [calls EXCEPT ![c] =
              IF InsertOutcome(c) = "inserted"
              THEN [@ EXCEPT !.next = @ + 1,
                             !.seen = @ \cup {calls[c].instance.items[calls[c].next]}]
              ELSE [@ EXCEPT !.pc = "returned", !.seen = {}, !.result = InsertOutcome(c)]]
    /\ UNCHANGED <<engine, validator, instance, verdict, errors, registry, description>>
    /\ UNCHANGED numberVars

\* the call returns: an array walked to its end has no duplicates, and every
\* other check is made of the instance and the validator alone
Return(c) ==
    /\ calls[c].pc = "running"
    /\ WalksItems(calls[c]) => calls[c].next > Len(calls[c].instance.items)
    /\ calls' =
          [calls EXCEPT ![c] =
              [@ EXCEPT !.pc = "returned", !.seen = {},
                        !.result = IF WalksItems(calls[c]) THEN "true"
                                   ELSE is_valid(engine, calls[c].clash, validator,
                                                 calls[c].instance)]]
    /\ UNCHANGED <<engine, validator, instance, verdict, errors, registry, description>>
    /\ UNCHANGED numberVars

NextConcurrent ==
    \/ CompileShared
    \/ \E c \in Threads : Begin(c)
    \/ \E c \in Threads : Insert(c)
    \/ \E c \in Threads : Return(c)

SpecConcurrent == InitValidate /\ [][NextConcurrent]_vars

-----------------------------------------------------------------------------
(* uniqueItems on arrays of arrays and of objects *)

InnerNumbers == {Number(<<"1">>), Number(<<"1", ".", "0">>), Number(<<"2">>)}

InnerArrays == {Array(items) : items \in UNION {[1..k -> InnerNumbers] : k \in 1..2}}

\* the keys of an object, in each order a map may iterate them
InnerKeys == {<<"a">>, <<"a", "b">>, <<"b", "a">>}

InnerObjects ==
    UNION {{Object(keys, values) : values \in [1..Len(keys) -> InnerNumbers]} :
              keys \in InnerKeys}

NestedElements == InnerNumbers \cup InnerArrays \cup InnerObjects

\* arrays of one and of two elements, and the array [1, 2, 3]
NestedInstances ==
    {Array(<<x>>) : x \in NestedElements}
        \cup {Array(<<x, y>>) : x \in NestedElements, y \in NestedElements}
        \cup {Array(<<Number(<<"1">>), Number(<<"2">>), Number(<<"3">>)>>)}

\* uniqueItems is compiled
CompileUniqueItems ==
    /\ validator.st = "none"
    /\ \E schema \in Schemas : validator' = compile(engine, "uniqueItems", schema, 0)
    /\ UNCHANGED <<engine, instance, verdict, errors, registry, calls, description>>
    /\ UNCHANGED numberVars

\* validator.is_valid(&schema, &instance) on an array of nested values
IsValidNested ==
    /\ validator.st = "ok"
    /\ verdict = "unset"
    /\ \E x \in NestedInstances : \E clash \in BOOLEAN :
          /\ instance' = x
          /\ verdict' = is_valid(engine, clash, validator, x)
    /\ UNCHANGED <<engine, validator, errors, registry, calls, description>>
    /\ UNCHANGED numberVars

NextNested ==
    \/ CompileUniqueItems
    \/ IsValidNested
    \/ Validate

SpecNested == InitValidate /\ [][NextNested]_vars

-----------------------------------------------------------------------------
(* minimum on integers next to the largest integer that every float up to  *)
(* it represents (2^MantissaBits; 2^53 for f64)                            *)

DecimalDigits == <<"0", "1", "2", "3", "4", "5", "6", "7", "8", "9">>

\* the decimal digits of a natural number
RECURSIVE DigitsOf(_)
DigitsOf(n) ==
    IF n < 10 THEN <<DecimalDigits[n + 1]>>
    ELSE DigitsOf(n \div 10) \o <<DecimalDigits[(n % 10) + 1]>>

\* the integers from 2^MantissaBits - 1 to 2^MantissaBits + 2
WideIntegers == {Pow(2, MantissaBits) + k : k \in -1..2}

\* each as an unsigned integer, a signed integer and a float literal, and
\* literals of small numbers
WideLiterals ==
    {DigitsOf(n) : n \in WideIntegers}
        \cup {<<"-">> \o DigitsOf(n) : n \in WideIntegers}
        \cup {DigitsOf(n) \o <<".", "0">> : n \in WideIntegers}
        \cup {<<"1">>, <<"-", "1">>, <<"0", ".", "1">>, <<"1", ".", "0">>}

\* minimum is compiled
CompileMinimum ==
    /\ validator.st = "none"
    /\ \E t \in WideLiterals : validator' = compile(engine, "minimum", Number(t), 0)
    /\ UNCHANGED <<engine, instance, verdict, errors, registry, calls, description>>
    /\ UNCHANGED numberVars

\* validator.is_valid(&schema, &instance) on a number
IsValidWide ==
    /\ validator.st = "ok"
    /\ verdict = "unset"
    /\ \E t \in WideLiterals :
          /\ instance' = Number(t)
          /\ verdict' = is_valid(engine, FALSE, validator, Number(t))
    /\ UNCHANGED <<engine, validator, errors, registry, calls, description>>
    /\ UNCHANGED numberVars

\* validator.name()
Name ==
    /\ validator.st = "ok"
    /\ description = NoDescription
    /\ description' = Validate_name(engine, validator)
    /\ UNCHANGED <<engine, validator, instance, verdict, errors, registry, calls>>
    /\ UNCHANGED numberVars

NextMinimum ==
    \/ CompileMinimum
    \/ Name
    \/ IsValidWide
    \/ Validate

SpecMinimum == InitValidate /\ [][NextMinimum]_vars

-----------------------------------------------------------------------------
(* multipleOf with divisors that are not integers *)

FractionalDivisors ==
    {<<"0", ".", "5">>, <<"1", ".", "5">>, <<"0", ".", "1">>, <<"0", ".", "2", "5">>}

PositiveLiterals ==
    {<<"0", ".", "5">>, <<"0", ".", "7", "5">>, <<"1", ".", "5">>, <<"0", ".", "2", "5">>,
     <<"0", ".", "3">>, <<"1">>, <<"2">>, <<"3">>, <<"1", ".", "0">>, <<"4", ".", "5">>}

\* each instance and the instance of the opposite sign
SignedLiterals == PositiveLiterals \cup {<<"-">> \o t : t \in PositiveLiterals} \cup {<<"0">>}

\* multipleOf is compiled
CompileMultipleOf ==
    /\ validator.st = "none"
    /\ \E t \in FractionalDivisors \cup {<<"2">>} :
          validator' = compile(engine, "multipleOf", Number(t), 0)
    /\ UNCHANGED <<engine, instance, verdict, errors, registry, calls, description>>
    /\ UNCHANGED numberVars

\* validator.is_valid(&schema, &instance) on a number of either sign
IsValidSigned ==
    /\ validator.st = "ok"
    /\ verdict = "unset"
    /\ \E t \in SignedLiterals :
          /\ instance' = Number(t)
          /\ verdict' = is_valid(engine, FALSE, validator, Number(t))
    /\ UNCHANGED <<engine, validator, errors, registry, calls, description>>
    /\ UNCHANGED numberVars

NextMultipleOf ==
    \/ CompileMultipleOf
    \/ IsValidSigned
    \/ Validate

SpecMultipleOf == InitValidate /\ [][NextMultipleOf]_vars

-----------------------------------------------------------------------------
(* The validators against what the keywords mean *)

Checked == validator.st = "ok" /\ verdict # "unset"

Validated == Checked /\ errors # NoErrors

\* two numbers of the same decimal value
SameValue(x, y) ==
    x.kind = "number" /\ y.kind = "number" /\ LiteralValue(x.text) = LiteralValue(y.text)

\* the decimal value of x is at least that of y
ValueAtLeast(x, y) == num_ge(LiteralValue(x.text), LiteralValue(y.text))

HasExponent(x) == LiteralParts(x.text).hasExp

\* C1: under uniqueItems, in either build, an array with two top-level numbers
\* of the same decimal value and a different spelling is not valid
C1_SameValueNumbersAreDuplicates ==
    (Checked /\ validator.keyword = "uniqueItems" /\ instance.kind = "array"
        /\ \E i, j \in 1..Len(instance.items) :
              /\ i # j
              /\ instance.items[i].text # instance.items[j].text
              /\ SameValue(instance.items[i], instance.items[j]))
    => verdict = "false"

HashAgreesWithEq(e, x, y) ==
    (~HashPanics(e, x) /\ ~HashPanics(e, y))
    => /\ HashedValue_eq(e, x, y) => HashedValue_hash(e, x) = HashedValue_hash(e, y)
       /\ (e = "exact" /\ x.kind = "number" /\ y.kind = "number"
             /\ eq(FromNumber(x.text), FromNumber(y.text)))
             => hash(FromNumber(x.text)) = hash(FromNumber(y.text))

\* C2: values that are equal as HashedValue feed the same data to the hasher,
\* and numbers that are equal as PerfectPrecisionNumber hash the same
C2_HashConsistentWithEq ==
    (Checked /\ validator.keyword = "uniqueItems" /\ instance.kind = "array")
    => \A i, j \in 1..Len(instance.items) :
          HashAgreesWithEq(engine, instance.items[i], instance.items[j])

\* C3: validate yields no violation if and only if is_valid returns true
C3_ValidateEmptyIffIsValid ==
    Validated => (errors = no_error <=> verdict = "true")

\* the kinds of instance a keyword constrains
Applicable(keyword) ==
    CASE keyword = "uniqueItems" -> "array"
      [] keyword \in {"minimum", "multipleOf"} -> "number"
      [] keyword = "format" -> "string"

\* C4: is_valid returns true for an instance of a kind the keyword does not
\* constrain
C4_InapplicableKindIsValid ==
    (Checked /\ instance.kind # Applicable(validator.keyword)) => verdict = "true"

\* C5: minimum accepts a number if and only if its decimal value is at least
\* the limit's
C5_MinimumIsExactComparison ==
    (Checked /\ validator.keyword = "minimum" /\ instance.kind = "number")
    => (verdict = "true" <=> ValueAtLeast(instance, validator.schema))

\* C13: minimum and multipleOf return a boolean and a violation sequence for
\* every instance, numbers in any JSON syntax included: the conversion of a
\* number to an exact number never aborts
C13_ValidationNeverRaises ==
    (Checked /\ validator.keyword \in {"minimum", "multipleOf"})
    => /\ verdict \in {"true", "false"}
       /\ errors.st \in {"unset", "done"}

\* the fraction n / d has the value v
SameFraction(n, d, v) == n * v.den = v.num * d

\* the compiled validator holds the number of its schema: exactly, or, when
\* it holds a float and the number is not one, as the float nearest to it
HoldsItsNumber(v) ==
    IF v.name \in {"MultipleOfFloatValidator", "MultipleOfIntegerValidator"}
    THEN /\ v.limit.cls = "finite"
         /\ v.limit = FloatNear(LiteralValue(v.schema.text))
    ELSE /\ v.limit.tag # "none"
         /\ SameFraction(v.limit.num, v.limit.den, LiteralValue(v.schema.text))

\* C14: compiling minimum or multipleOf gives a SchemaError exactly when the
\* value is not a number, and for every number a validator that holds it
C14_CompileNumberKeyword ==
    (validator.st # "none" /\ validator.keyword \in {"minimum", "multipleOf"})
    => /\ validator.st = "error" <=> validator.schema.kind # "number"
       /\ validator.schema.kind = "number" => (validator.st = "ok" /\ HoldsItsNumber(validator))

\* what does hold: the same, for numbers written without an exponent
CompileOfPlainNumbers ==
    (validator.st # "none" /\ validator.keyword \in {"minimum", "multipleOf"}
        /\ ~(validator.schema.kind = "number" /\ HasExponent(validator.schema)))
    => /\ validator.st = "error" <=> validator.schema.kind # "number"
       /\ validator.schema.kind = "number" => (validator.st = "ok" /\ HoldsItsNumber(validator))

\* the JSON type of the value a keyword takes
SchemaKind(keyword) ==
    CASE keyword \in {"minimum", "multipleOf"} -> "number"
      [] keyword = "uniqueItems" -> "bool"
      [] keyword = "format" -> "string"

\* C15: compiling a keyword with a value of the wrong JSON type is a
\* compilation error, for uniqueItems with a non-boolean value in particular
C15_WrongTypeIsCompilationError ==
    (validator.st # "none" /\ validator.schema.kind # SchemaKind(validator.keyword))
    => validator.st = "error"

\* the names of the built-in formats
BuiltInFormats ==
    {"date", "date-time", "email", "hostname", "idn-email", "idn-hostname", "ipv4",
     "ipv6", "iri", "iri-reference", "json-pointer", "regex", "relative-json-pointer",
     "time", "uri", "uri-reference", "uri-template"}

\* format was compiled for a name
FormatNamed == validator.st # "none" /\ validator.keyword = "format"
                  /\ validator.schema.kind = "string"

\* C16: for a name that is not a built-in format, under every draft, format
\* compiles to no validator, and no instance is judged by it
C16_UnknownFormatIsDropped ==
    (FormatNamed /\ validator.schema.text[1] \notin BuiltInFormats)
    => /\ validator.st = "dropped"
       /\ verdict = "unset"
       /\ errors = NoErrors

C16_Witness ==
    /\ FormatNamed
    /\ validator.schema.text = <<"no-such-format">>
    /\ validator.draft = 4
    /\ validator.st = "dropped"

\* format was compiled
FormatCompiled == validator.st # "none" /\ validator.keyword = "format"

\* C17: for every value given to format and every draft, compiling it gives a
\* validator or no validator, never a compilation error
C17_FormatNeverFailsToCompile ==
    FormatCompiled => validator.st \in {"ok", "dropped"}

\* C17, for what compile does: a value that is a string, whatever the name and
\* the draft, gives a validator or no validator; exactly the values that are
\* not strings give a SchemaError
C17_FormatNameNeverFailsToCompile ==
    FormatCompiled
    => /\ validator.schema.kind = "string" => validator.st \in {"ok", "dropped"}
       /\ validator.schema.kind # "string" => validator.st = "error"

C17_Witness ==
    /\ FormatNamed
    /\ validator.schema.text = <<"iri">>
    /\ validator.draft = 4
    /\ validator.st = "dropped"

\* format was compiled for the name of a built-in format
BuiltInNamed == FormatNamed /\ validator.schema.text[1] \in BuiltInFormats

\* a validator from the draft on, and before it no validator and no verdict
GatedAt(draft) ==
    IF validator.draft >= draft THEN validator.st = "ok"
    ELSE validator.st = "dropped" /\ verdict = "unset" /\ errors = NoErrors

\* C18: idn-hostname, iri and iri-reference give a validator only from draft 7
\* on, json-pointer, uri-reference and uri-template only from draft 6 on, and
\* every other built-in format, relative-json-pointer included, under every
\* draft; under an older draft a gated format checks nothing
C18_DraftGating ==
    BuiltInNamed
    => GatedAt(CASE validator.schema.text[1] \in {"idn-hostname", "iri", "iri-reference"} -> 7
                 [] validator.schema.text[1] \in
                        {"json-pointer", "uri-reference", "uri-template"} -> 6
                 [] OTHER -> 4)

\* C18, for what the formats declare: relative-json-pointer is gated at
\* draft 7 with idn-hostname, iri and iri-reference
C18_DraftGatingAsDeclared ==
    BuiltInNamed
    => GatedAt(CASE validator.schema.text[1] \in
                        {"idn-hostname", "iri", "iri-reference", "relative-json-pointer"} -> 7
                 [] validator.schema.text[1] \in
                        {"json-pointer", "uri-reference", "uri-template"} -> 6
                 [] OTHER -> 4)

C18_Witness ==
    /\ BuiltInNamed
    /\ validator.schema.text = <<"relative-json-pointer">>
    /\ validator.draft = 6
    /\ validator.st = "dropped"

\* the caller's own checker is registered under the name of the format
RegisteredByCaller ==
    /\ FormatNamed
    /\ validator.schema.text[1] \in DOMAIN registry
    /\ registry[validator.schema.text[1]] = CustomHandler

\* C19: format is compiled by looking its name up in the registry: a name the
\* caller registered before the compilation gives the caller's checker, also
\* when it is the name of a built-in format, and a name the registry does not
\* have gives no validator
C19_CompileResolvesThroughRegistry ==
    /\ RegisteredByCaller => validator.st = "ok" /\ validator.name = CustomHandler
    /\ FormatNamed /\ validator.schema.text[1] \notin DOMAIN registry
           => validator.st = "dropped"

\* a call that returned has the result of the same call made alone
ReturnsWhatItWouldAlone(c) ==
    calls[c].pc = "returned"
    => calls[c].result = is_valid(engine, calls[c].clash, validator, calls[c].instance)

\* no step of a call changes the validator, the registry or an instance
\* that some call was given
LeavesSharedDataAlone ==
    /\ validator.st = "ok" => validator' = validator
    /\ registry' = registry
    /\ \A c \in Threads : calls[c].pc # "idle" => calls'[c].instance = calls[c].instance

\* C20: however the validation calls of several threads on one compiled
\* validator interleave, each call returns what it returns when made alone,
\* and the validator, the registry and the instances stay as they were
C20_CallsShareNoState ==
    /\ [](\A c \in Threads : ReturnsWhatItWouldAlone(c))
    /\ [][LeavesSharedDataAlone]_vars

\* a call returned that the array has no duplicates while the call of the
\* other thread on the same array was half way through it
C20_Witness ==
    /\ validator.keyword = "uniqueItems"
    /\ calls["a"].pc = "returned"
    /\ calls["a"].result = "true"
    /\ Len(calls["a"].instance.items) = 2
    /\ calls["b"].pc = "running"
    /\ calls["b"].instance = calls["a"].instance
    /\ calls["b"].next = 2

\* x and y are the same JSON value: numbers of the same decimal value,
\* arrays of the same values in the same order, objects of the same values
\* under the same keys
RECURSIVE SameJson(_, _)
SameJson(x, y) ==
    /\ x.kind = y.kind
    /\ CASE x.kind = "number" -> LiteralValue(x.text) = LiteralValue(y.text)
         [] x.kind \in {"string", "null", "bool"} -> x = y
         [] x.kind = "array" ->
                /\ Len(x.items) = Len(y.items)
                /\ \A i \in 1..Len(x.items) : SameJson(x.items[i], y.items[i])
         [] x.kind = "object" ->
                /\ Len(x.items) = Len(y.items)
                /\ \A i \in 1..Len(x.items) : \E j \in 1..Len(y.items) :
                       x.text[i] = y.text[j] /\ SameJson(x.items[i], y.items[j])

\* y has the elements of x in another order
Reordered(x, y) ==
    /\ Len(x.items) = Len(y.items)
    /\ \E p \in [1..Len(x.items) -> 1..Len(x.items)] :
          /\ \A i, j \in 1..Len(x.items) : i # j => p[i] # p[j]
          /\ \A i \in 1..Len(x.items) : SameJson(x.items[i], y.items[p[i]])
    /\ ~SameJson(x, y)

\* uniqueItems has checked an array of two elements
CheckedPair ==
    /\ Checked
    /\ validator.keyword = "uniqueItems"
    /\ instance.kind = "array"
    /\ Len(instance.items) = 2

\* C21: under uniqueItems two objects with the same keys and equal values
\* under each key are duplicates and hash the same whatever the order of their
\* keys, two arrays with the same elements in another order are not
\* duplicates, and [1, 2, 3] is accepted
C21_ObjectsUnorderedArraysOrdered ==
    /\ (CheckedPair /\ instance.items[1].kind = "object"
           /\ SameJson(instance.items[1], instance.items[2]))
          => /\ verdict = "false"
             /\ HashedValue_hash(engine, instance.items[1])
                   = HashedValue_hash(engine, instance.items[2])
    /\ (CheckedPair /\ instance.items[1].kind = "array" /\ instance.items[2].kind = "array"
           /\ Reordered(instance.items[1], instance.items[2]))
          => verdict = "true"
    /\ (Checked /\ instance = Array(<<Number(<<"1">>), Number(<<"2">>), Number(<<"3">>)>>))
          => verdict = "true"

\* the keys of an object in another order, each with the value it is spelled
\* with: the objects are duplicates and hash the same; arrays in another
\* order are not duplicates
OrderOfSpelledValues ==
    /\ (CheckedPair /\ instance.items[1].kind = "object"
           /\ ValueEq("exact", instance.items[1], instance.items[2]))
          => /\ verdict = "false"
             /\ HashedValue_hash(engine, instance.items[1])
                   = HashedValue_hash(engine, instance.items[2])
    /\ (CheckedPair /\ instance.items[1].kind = "array" /\ instance.items[2].kind = "array"
           /\ Reordered(instance.items[1], instance.items[2]))
          => verdict = "true"
    /\ (Checked /\ instance = Array(<<Number(<<"1">>), Number(<<"2">>), Number(<<"3">>)>>))
          => verdict = "true"

\* C24: numbers are compared by their decimal value at every depth: under
\* uniqueItems two arrays, or two objects, whose numbers have the same values
\* in the same places are duplicates however the numbers are spelled, so that
\* [[1], [1.0]] is not valid
C24_NumbersEqualAtEveryDepth ==
    (CheckedPair /\ instance.items[1].kind \in {"array", "object"}
        /\ SameJson(instance.items[1], instance.items[2]))
    => verdict = "false"

\* the fast build has checked a number against minimum
CheckedNatively ==
    Checked /\ engine = "fast" /\ validator.keyword = "minimum" /\ instance.kind = "number"

\* the literal is written as an integer
WrittenAsInteger(x) == ~LiteralParts(x.text).hasFrac /\ ~LiteralParts(x.text).hasExp

\* the value a literal has once read: its own when written as an integer,
\* and otherwise that of the nearest float
ValueRead(x) ==
    IF WrittenAsInteger(x) THEN LiteralValue(x.text)
    ELSE FloatValue(FloatNear(LiteralValue(x.text)))

\* reading the literal does not change its value
ReadExactly(x) ==
    /\ ValueRead(x).num = LiteralValue(x.text).num
    /\ ValueRead(x).den = LiteralValue(x.text).den

\* C22: in the fast build minimum accepts a number exactly when its decimal
\* value is at least that of the limit, whatever the representations of the
\* two (unsigned, signed, float)
C22_NativeMinimumIsExact ==
    CheckedNatively => verdict = Bit(ValueAtLeast(instance, validator.schema))

\* C22, for the values as read: in the fast build minimum compares the values
\* that limit and instance have once read, across the three representations
\* and without rounding an integer to a float; the result is that of the
\* comparison of the decimal values whenever both are read exactly
C22_NativeMinimumComparesValuesRead ==
    CheckedNatively
    => /\ verdict = Bit(ValueRead(instance).num * ValueRead(validator.schema).den
                           >= ValueRead(validator.schema).num * ValueRead(instance).den)
       /\ (ReadExactly(instance) /\ ReadExactly(validator.schema))
             => verdict = Bit(ValueAtLeast(instance, validator.schema))

\* the unsigned limit 2^MantissaBits + 1 refuses the float 2^MantissaBits
C22_Witness ==
    /\ CheckedNatively
    /\ validator.schema.text = DigitsOf(Pow(2, MantissaBits) + 1)
    /\ instance.text = DigitsOf(Pow(2, MantissaBits)) \o <<".", "0">>
    /\ verdict = "false"

\* the indices of the elements that are equal to an earlier element
Repeats(items) ==
    {i \in 1..Len(items) : \E j \in 1..(i - 1) : HashedValue_eq(engine, items[j], items[i])}

\* the call of a thread has walked an array and returned
Walked(c) ==
    /\ calls[c].pc = "returned"
    /\ WalksItems(calls[c])
    /\ calls[c].result # "panic"

\* C23: is_unique takes the elements in the order of the array: it returns
\* false at the first element that is equal to an earlier one, having inserted
\* the elements before it and none after it, and it returns true after
\* inserting all n elements when no element is equal to an earlier one
C23_StopsAtFirstRepeat ==
    \A c \in Threads :
        Walked(c)
        => IF Repeats(calls[c].instance.items) = {}
           THEN /\ calls[c].result = "true"
                /\ calls[c].next = Len(calls[c].instance.items) + 1
           ELSE /\ calls[c].result = "false"
                /\ calls[c].next \in Repeats(calls[c].instance.items)
                /\ \A i \in Repeats(calls[c].instance.items) : calls[c].next <= i

\* the same with "equal" read as found in the set of the call
StopsAtFirstFound ==
    \A c \in Threads :
        Walked(c)
        => calls[c].result
              = AllInserted(engine, calls[c].clash, calls[c].instance.items, 1)

\* a call is never past the end of its array, and each of its steps either
\* returns or moves it one element on
WalkIsBounded ==
    /\ [](\A c \in Threads : calls[c].next <= Len(calls[c].instance.items) + 1)
    /\ [][\A c \in Threads :
             (calls[c].pc = "running" /\ calls'[c] # calls[c])
             => calls'[c].pc = "returned" \/ calls'[c].next = calls[c].next + 1]_vars

\* the fast build has checked a number against a divisor that is not an
\* integer
CheckedAgainstFraction ==
    /\ Checked
    /\ engine = "fast"
    /\ validator.keyword = "multipleOf"
    /\ LiteralValue(validator.schema.text).den # 1
    /\ instance.kind = "number"

\* n / d is farther than EPSILON = 2^(1 - MantissaBits) from every integer
FarFromInteger(n, d) ==
    /\ (n % d) * Pow(2, MantissaBits - 1) > d
    /\ (d - (n % d)) * Pow(2, MantissaBits - 1) > d

\* the quotient of the instance by the divisor, as a fraction n / d with d > 0
QuotientNum ==
    LiteralValue(instance.text).num * LiteralValue(validator.schema.text).den

QuotientDen ==
    LiteralValue(instance.text).den * LiteralValue(validator.schema.text).num

\* C25: in the fast build, with a divisor that is not an integer, an instance
\* of either sign whose quotient by the divisor is farther than epsilon from
\* an integer is not a multiple
C25_FarFromMultipleIsRejected ==
    (CheckedAgainstFraction
        /\ FarFromInteger(QuotientNum * Sign(QuotientDen), Abs(QuotientDen)))
    => verdict = "false"

\* the same for the instances that are not negative
PositiveFarFromMultipleIsRejected ==
    (CheckedAgainstFraction /\ LiteralValue(instance.text).num >= 0
        /\ FarFromInteger(QuotientNum * Sign(QuotientDen), Abs(QuotientDen)))
    => verdict = "false"

\* name() was called on a minimum validator
MinimumDescribed == validator.keyword = "minimum" /\ description # NoDescription

\* the number of the description is the fraction q
Shows(q) == description.num * q.den = q.num * description.den

\* the description shows the limit of the schema, or the float nearest to it
ShowsTheLimit ==
    \/ Shows(LiteralValue(validator.schema.text))
    \/ Shows(FloatValue(FloatNear(LiteralValue(validator.schema.text))))

\* C26: the description of a minimum validator names the keyword minimum and
\* shows the limit, in either build and for each kind of limit
C26_MinimumNamesItself ==
    MinimumDescribed => description.keyword = "minimum" /\ ShowsTheLimit

\* the description of a minimum validator shows the limit
MinimumShowsItsLimit == MinimumDescribed => ShowsTheLimit

\* what the comparison of minimum does on literals without an exponent
MinimumOnPlainLiterals ==
    (Checked /\ validator.keyword = "minimum" /\ instance.kind = "number"
        /\ ~HasExponent(instance))
    => (verdict = Bit(ValueAtLeast(instance, validator.schema)))

-----------------------------------------------------------------------------
(* What a decimal text denotes, read off the text itself *)

RECURSIVE ValueOfDigits(_)
ValueOfDigits(s) ==
    IF s = <<>> THEN 0
    ELSE DigitVal(s[Len(s)]) + 10 * ValueOfDigits(SubSeq(s, 1, Len(s) - 1))

PointCount(t) == Cardinality({i \in 1..Len(t) : t[i] = "."})

HasMinus(t) == Len(t) > 0 /\ t[1] = "-"

Unsigned(t) == IF Len(t) > 0 /\ t[1] \in {"-", "+"} THEN Tail(t) ELSE t

\* the text without its decimal point
Unpointed(t) == SelectSeq(t, LAMBDA ch : ch # ".")

PointAt(t) == CHOOSE i \in 1..Len(t) : t[i] = "."

IntegerPart(t) == SubSeq(t, 1, PointAt(t) - 1)

FractionPart(t) == SubSeq(t, PointAt(t) + 1, Len(t))

AllDigits(s) == \A i \in 1..Len(s) : IsDigit(s[i])

\* an optional minus sign, digits, at most one decimal point, at least one digit
DecimalText(t) ==
    LET u == IF HasMinus(t) THEN Tail(t) ELSE t
    IN  /\ PointCount(u) <= 1
        /\ AllDigits(Unpointed(u))
        /\ Len(Unpointed(u)) > 0

SignOf(t) == IF HasMinus(t) THEN -1 ELSE 1

Parsing == text # Unset

\* C6: is_multiple_of(a, b) is true exactly when a = k * b for some integer k,
\* whatever the variants of a and b.
C6_IsMultipleOfIsDivisibility ==
    res.op = "is_multiple_of" =>
        LET a == nums[1]
            b == nums[2]
            bound == Abs(a.num * b.den)
        IN  res.flag <=> \E k \in -bound..bound : a.num * b.den = k * b.num * a.den

C6_Witness ==
    /\ res.op = "is_multiple_of"
    /\ res.flag
    /\ nums[1].tag = "Rational"
    /\ nums[2].tag = "Rational"
    /\ nums[1] # nums[2]

\* C7: from_str gives a text without a decimal point the Integer of its value,
\* a text whose decimal point is followed by zeros only (or nothing) the
\* IntegerFromFloat of its integer part, and a text with a non-zero digit after
\* the decimal point the Rational digits / 10^k in lowest terms, the sign kept.
C7_ParseClassifies ==
    (Parsing /\ DecimalText(text)) =>
        LET u == Unsigned(text)
        IN  IF PointCount(text) = 0
            THEN parsed = Ok(Integer(SignOf(text) * ValueOfDigits(u)))
            ELSE IF \A i \in 1..Len(FractionPart(u)) : FractionPart(u)[i] = "0"
                 THEN parsed = Ok(IntegerFromFloat(SignOf(text) * ValueOfDigits(IntegerPart(u))))
                 ELSE /\ parsed.ok
                      /\ parsed.val.tag = "Rational"
                      /\ parsed.val.den > 0
                      /\ Gcd(parsed.val.num, parsed.val.den) = 1
                      /\ parsed.val.num * Pow(10, Len(FractionPart(u)))
                            = SignOf(text) * ValueOfDigits(Unpointed(u)) * parsed.val.den

C7_Witness ==
    /\ Parsing
    /\ HasMinus(text)
    /\ PointCount(text) = 1
    /\ parsed.ok
    /\ parsed.val.tag = "Rational"
    /\ parsed.val.num = -1
    /\ parsed.val.den = 2

\* C8: from_str fails exactly when the text has more than one decimal point or
\* a character that is neither a digit, nor the decimal point, nor one leading
\* sign.
C8_ParseFailsOnlyOnMalformed ==
    Parsing =>
        (~parsed.ok <=>
            \/ PointCount(text) > 1
            \/ \E i \in 1..Len(text) :
                  /\ ~IsDigit(text[i])
                  /\ text[i] # "."
                  /\ ~(i = 1 /\ text[i] \in {"-", "+"}))

\* every exact number the state holds
Constructed ==
    {nums[i] : i \in 1..Len(nums)} \cup (IF parsed.ok THEN {parsed.val} ELSE {})

\* C9: a Rational built by any constructor is in lowest terms with a
\* denominator other than 1 (what is_multiple_of asserts of its receiver), so
\* an integer value is never a Rational.
C9_MinimalRepresentation ==
    \A x \in Constructed :
        /\ x.tag \in {"Integer", "IntegerFromFloat", "Rational"}
        /\ x.tag = "Rational" =>
              /\ DenominatorIsNotOne(x)
              /\ x.den > 0
              /\ Gcd(x.num, x.den) = 1
        /\ x.tag # "Rational" => x.den = 1

C9_Witness ==
    /\ Len(nums) = 2
    /\ nums[1] = [tag |-> "Rational", num |-> 3, den |-> 4]
    /\ nums[2] = [tag |-> "Rational", num |-> 1, den |-> 10]

\* what a construction from the float f must have done in a step
FloatConstructed(f, before, after, result) ==
    IF f.cls = "finite"
    THEN /\ result = Err("none")
         /\ Len(after) = Len(before) + 1
         /\ after[Len(after)].tag =
               (IF f.m % Pow(2, f.e) = 0 THEN "IntegerFromFloat" ELSE "Rational")
         /\ after[Len(after)].num * Pow(2, f.e) = f.m * after[Len(after)].den
    ELSE /\ after = before
         /\ ~result.ok
         /\ result.err = (IF f.cls = "inf" THEN "Infinite numbers are not managed"
                          ELSE "NaN numbers are not managed")

\* C11: from a native float, a value without fractional part becomes an
\* IntegerFromFloat and any other finite value a Rational of the same value;
\* exactly the infinities and NaN fail, each with its own error
C11_FromFloat ==
    [][\A f \in Floats : TryFromFloat(f) => FloatConstructed(f, nums, nums', parsed')]_vars

C11_Witness ==
    /\ text = Unset
    /\ Len(nums) = 2
    /\ nums[1].tag = "IntegerFromFloat"
    /\ nums[2].tag = "Rational"
    /\ parsed.err = NaNNumber

\* a decimal text with a decimal point and a digit other than 0 after it
HasFraction(t) ==
    /\ DecimalText(t)
    /\ PointCount(t) = 1
    /\ \E i \in 1..Len(FractionPart(t)) : FractionPart(t)[i] # "0"

\* the literal of the state was read both as text and through its float
ReadBothWays == text # Unset /\ Len(nums) = 1

\* C12: a decimal text with a non-zero digit after its point parses to a
\* Rational, and the number built from the float the text is read as is
\* equal to the parsed one
C12_FloatRoundTrip ==
    (ReadBothWays /\ HasFraction(text))
    => /\ parsed.ok
       /\ parsed.val.tag = "Rational"
       /\ eq(nums[1], parsed.val)

\* what does hold: the round trip of the literals that a float represents
\* exactly, and the Rational parse of all of them
RoundTripOfExactFloats ==
    (ReadBothWays /\ HasFraction(text))
    => /\ parsed.ok
       /\ parsed.val.tag = "Rational"
       /\ (parsed.val.den \in {Pow(2, k) : k \in 1..MantissaBits} => eq(nums[1], parsed.val))
       /\ (parsed.val.den \notin {Pow(2, k) : k \in 1..MantissaBits} => ~eq(nums[1], parsed.val))

Ordering == {"Less", "Equal", "Greater"}

Flip(o) == IF o = "Less" THEN "Greater" ELSE IF o = "Greater" THEN "Less" ELSE o

\* the order of the exact values a.num / a.den and b.num / b.den
ValueOrder(a, b) ==
    LET d == a.num * b.den - b.num * a.den
    IN  IF d < 0 THEN "Less" ELSE IF d = 0 THEN "Equal" ELSE "Greater"

\* C10: cmp is a total order on the exact values whatever the variants: it
\* always answers, agrees with the order of the values, is antisymmetric and
\* transitive, and a == b holds exactly when cmp(a, b) is Equal.
C10_TotalOrder ==
    res.op = "cmp" =>
        /\ {res.ab, res.ba, res.bc, res.ac} \subseteq Ordering
        /\ res.ab = ValueOrder(nums[1], nums[2])
        /\ res.ba = Flip(res.ab)
        /\ (res.ab \in {"Less", "Equal"} /\ res.bc \in {"Less", "Equal"})
              => res.ac \in {"Less", "Equal"}
        /\ (res.ab = "Less" /\ res.bc \in {"Less", "Equal"}) => res.ac = "Less"
        /\ (res.ab = "Equal" /\ res.bc = "Equal") => res.ac = "Equal"
        /\ res.flag <=> res.ab = "Equal"

C10_Witness ==
    /\ res.op = "cmp"
    /\ nums[1].tag = "Integer"
    /\ nums[2].tag = "Rational"
    /\ res.ab = "Less"
    /\ res.bc = "Less"
    /\ res.ac = "Less"

C10_WitnessEqualAcrossTags ==
    /\ res.op = "cmp"
    /\ nums[1].tag = "Integer"
    /\ nums[2].tag = "IntegerFromFloat"
    /\ res.flag

====
